---- MODULE Spec2Model ----
(***************************************************************************)
(* Expander: marker scanner (src/utils/regex.ts) and replacement engine    *)
(* (src/app/services/file-processor.service.ts).                           *)
(*                                                                         *)
(* A document is a sequence of tokens.  A token is one of                  *)
(*   - an opening marker  "<!--\s*expand[-mode]:\s*key\s*-->"              *)
(*   - a closing marker   "<!--\s*-->"                                     *)
(*   - one character of ordinary text.                                     *)
(* Field s of a marker token tells whether the marker is spelled exactly  *)
(* as the code builds it ("canon": "<!-- expand: key -->", "<!---->") or   *)
(* with other whitespace ("loose": "<!--expand:key-->", "<!-- -->").       *)
(* Ordinary characters never contain "<", "!", "-" or ">", so a marker is  *)
(* never split over several tokens.  Offsets count tokens, from 0, as the  *)
(* code's offsets count characters.                                        *)
(***************************************************************************)
EXTENDS Integers, Sequences, FiniteSets, TLC

MaxLen == 3

(***************************************************************************)
(* Keys: sequences of characters                                           *)
(***************************************************************************)
KeyA == <<"a">>
KeyB == <<"b", "-", "c">>
KeyProp == <<"p", "r", "o", "p", ".", "u">>
Keys == {KeyA, KeyB, KeyProp}

\* [a-z0-9]+(?:-[a-z0-9]+)*
KEY_PATTERN(k) ==
    /\ Len(k) > 0
    /\ \A i \in 1..Len(k) : k[i] \in {"a", "b", "c", "o", "p", "r", "u", "-"}
    /\ k[1] # "-"
    /\ k[Len(k)] # "-"
    /\ \A i \in 1..(Len(k) - 1) : ~(k[i] = "-" /\ k[i + 1] = "-")

PROPERTY_PREFIX == <<"p", "r", "o", "p", ".">>

isPropertyKey(key) ==
    /\ Len(key) >= Len(PROPERTY_PREFIX)
    /\ SubSeq(key, 1, Len(PROPERTY_PREFIX)) = PROPERTY_PREFIX

getPropertyName(key) ==
    IF ~isPropertyKey(key) THEN key
    ELSE SubSeq(key, Len(PROPERTY_PREFIX) + 1, Len(key))

(***************************************************************************)
(* Tokens                                                                  *)
(***************************************************************************)
UpdateMode == {"auto", "manual", "once", "once-and-eject"}

Open(mode, key, s) == [t |-> "open", mode |-> mode, key |-> key, s |-> s]
Close(s) == [t |-> "close", mode |-> "", key |-> <<>>, s |-> s]
Ch(c) == [t |-> "ch", mode |-> "", key |-> <<>>, s |-> c]

\* MODE_TO_OPEN_MARKER[mode] + key + EXPANDER_CLOSE
buildOpenMarker(mode, key) == Open(mode, key, "canon")

\* MODE_TO_END_MARKER['auto']
buildCloseMarker == Close("canon")

\* String.prototype.trim() !== ''
trimIsEmpty(text) ==
    \A i \in 1..Len(text) : text[i].t = "ch" /\ text[i].s = " "

\* String.prototype.substring(a, b) and substring(a), offsets from 0
substring(text, a, b) == SubSeq(text, a + 1, b)
substringFrom(text, a) == SubSeq(text, a + 1, Len(text))

\* a startsWith that never finds the value: the value is always inserted
startsWithNever(text, v) == FALSE

\* String.prototype.startsWith
startsWith(text, v) == Len(v) <= Len(text) /\ SubSeq(text, 1, Len(v)) = v

(***************************************************************************)
(* Marker scanner (regex.ts)                                               *)
(***************************************************************************)
\* <!--\s*(expand(?:-(?:manual|once(?:-and-eject)?))?):\s*([a-z0-9]+(?:-[a-z0-9]+)*)\s*-->
OPENING_MARKER_REGEX(tok) == tok.t = "open" /\ KEY_PATTERN(tok.key)

\* <!--\s*-->
ClosingMarker(tok) == tok.t = "close"

\* position (from 1) of the first closing marker after position i, 0 if none:
\* the non-greedy ([\s\S]*?)<!--\s*--> of EXPANDER_REGEX
FirstCloseAfter(text, i) ==
    LET js == {j \in (i + 1)..Len(text) : ClosingMarker(text[j])}
    IN IF js = {} THEN 0 ELSE CHOOSE j \in js : \A k \in js : j <= k

\* markerToMode: the token carries the mode the marker type maps to
markerToMode(tok) == tok.mode

RECURSIVE ExecFrom(_, _)
\* the while (EXPANDER_REGEX.exec(text)) loop, resumed at position i (from 1)
ExecFrom(text, i) ==
    IF i > Len(text) THEN <<>>
    ELSE IF OPENING_MARKER_REGEX(text[i]) /\ FirstCloseAfter(text, i) # 0
    THEN LET j == FirstCloseAfter(text, i)
         IN <<[key |-> text[i].key,
               currentValue |-> SubSeq(text, i + 1, j - 1),
               startOffset |-> i - 1,
               endOffset |-> j,
               fullMatch |-> SubSeq(text, i, j),
               updateMode |-> markerToMode(text[i]),
               openMarker |-> buildOpenMarker(text[i].mode, text[i].key),
               closeMarker |-> Close("canon")]>>
            \o ExecFrom(text, j + 1)
    ELSE ExecFrom(text, i + 1)

findExpansions(text) == ExecFrom(text, 1)

RECURSIVE OpeningsFrom(_, _, _)
OpeningsFrom(text, i, pairedOffsets) ==
    IF i > Len(text) THEN <<>>
    ELSE IF OPENING_MARKER_REGEX(text[i]) /\ (i - 1) \notin pairedOffsets
    THEN <<[key |-> text[i].key,
            startOffset |-> i - 1,
            endOffset |-> i,
            openMarker |-> text[i],
            updateMode |-> markerToMode(text[i])]>>
         \o OpeningsFrom(text, i + 1, pairedOffsets)
    ELSE OpeningsFrom(text, i + 1, pairedOffsets)

findIncompleteExpansions(text) ==
    LET completeMatches == findExpansions(text)
        pairedOffsets == {completeMatches[n].startOffset : n \in 1..Len(completeMatches)}
    IN OpeningsFrom(text, 1, pairedOffsets)

(***************************************************************************)
(* State                                                                   *)
(***************************************************************************)
VARIABLES
    content,        \* the text of the note, as vault.read returns it
    replacements,   \* settings.replacements: key -> [enabled, value]
    last,           \* what the latest replaceExpansions call was given and returned
    fm,             \* a call of updateFrontmatterProperty: its arguments and result
    plugin,         \* ExpanderPlugin: settings, the debounce timer, files awaiting a pass
    ev,             \* a call of evaluateValue: its arguments and result
    vault           \* the files on disk and the processFile calls of processVault

vars == <<content, replacements, last, fm, plugin, ev, vault>>

(***************************************************************************)
(* ExpanderService.getReplacementValue (expander.service.ts)               *)
(* The values configured in this model are static text, which             *)
(* evaluateValue returns as it is.  found = FALSE stands for null.         *)
(***************************************************************************)
getReplacementValue(key) ==
    IF key \in DOMAIN replacements /\ replacements[key].enabled
    THEN [found |-> TRUE, value |-> replacements[key].value]
    ELSE [found |-> FALSE, value |-> <<>>]

\* an unknown key that is not recorded
pushUnknownForgets(unknownKeys, key) == unknownKeys

\* an unknown key that is recorded each time it is met
pushUnknownAlways(unknownKeys, key) == Append(unknownKeys, key)

\* unknownKeys.includes(key) ? unknownKeys : [...unknownKeys, key]
pushUnknown(unknownKeys, key) ==
    IF \E n \in 1..Len(unknownKeys) : unknownKeys[n] = key
    THEN unknownKeys
    ELSE Append(unknownKeys, key)

\* a sort that leaves the finds in ascending order of start offset
sortAscending(list) == list

\* [...list].sort((a, b) => b.startOffset - a.startOffset): the scans list
\* their finds by ascending, distinct start offsets
sortByStartOffsetDescending(list) ==
    [n \in 1..Len(list) |-> list[Len(list) - n + 1]]

(***************************************************************************)
(* FileProcessorService (file-processor.service.ts)                        *)
(***************************************************************************)
\* a replaceMatch that resumes one offset too late, after the match
replaceMatchOffByOne(text, match, newValue) ==
    substring(text, 0, match.startOffset)
    \o <<buildOpenMarker(match.updateMode, match.key)>> \o newValue \o <<buildCloseMarker>>
    \o substringFrom(text, match.endOffset + 1)

\* a replaceMatch that writes the markers around the value it found
replaceMatchKeepsValue(text, match, newValue) ==
    substring(text, 0, match.startOffset)
    \o <<buildOpenMarker(match.updateMode, match.key)>> \o match.currentValue
    \o <<buildCloseMarker>>
    \o substringFrom(text, match.endOffset)

replaceMatch(text, match, newValue) ==
    LET openMarker == buildOpenMarker(match.updateMode, match.key)
        closeMarker == buildCloseMarker
        newMatch == <<openMarker>> \o newValue \o <<closeMarker>>
    IN substring(text, 0, match.startOffset) \o newMatch
       \o substringFrom(text, match.endOffset)

\* one recorded edit of a pass: the occurrence, the looked-up value, and the
\* working text before and after
Step(phase, occ, value, before, after) ==
    [phase |-> phase, key |-> occ.key, updateMode |-> occ.updateMode,
     startOffset |-> occ.startOffset, endOffset |-> occ.endOffset,
     value |-> value, before |-> before, after |-> after]

\* the body of "for (const inc of sorted)" in completeIncompleteExpansions
completeOne(acc, inc, mode) ==
    IF mode = "auto" /\ inc.updateMode # "auto" THEN acc
    ELSE
    LET newValue == getReplacementValue(inc.key)
        old == acc.content
    IN IF ~newValue.found
       THEN LET unk == pushUnknown(acc.unknownKeys, inc.key)
            IN IF isPropertyKey(inc.key)
               THEN [acc EXCEPT !.unknownKeys = unk]
               ELSE LET new == substring(old, 0, inc.endOffset)
                               \o <<buildCloseMarker>>
                               \o substringFrom(old, inc.endOffset)
                    IN [acc EXCEPT !.unknownKeys = unk,
                                   !.content = new,
                                   !.count = @ + 1,
                                   !.steps = Append(@, Step("incomplete", inc, newValue, old, new))]
       ELSE IF isPropertyKey(inc.key)
       THEN [acc EXCEPT !.propertyUpdates =
                            Append(@, [propertyName |-> getPropertyName(inc.key),
                                       value |-> newValue.value]),
                        !.count = @ + 1]
       ELSE
       LET v == newValue.value
           new == IF inc.updateMode = "once-and-eject"
                  THEN substring(old, 0, inc.startOffset) \o v
                       \o substringFrom(old, inc.endOffset)
                  ELSE LET textAfterMarker == substringFrom(old, inc.endOffset)
                       IN IF startsWith(textAfterMarker, v)
                          THEN substring(old, 0, inc.endOffset + Len(v))
                               \o <<buildCloseMarker>>
                               \o substringFrom(old, inc.endOffset + Len(v))
                          ELSE substring(old, 0, inc.endOffset) \o v
                               \o <<buildCloseMarker>>
                               \o substringFrom(old, inc.endOffset)
       IN [acc EXCEPT !.content = new,
                      !.count = @ + 1,
                      !.steps = Append(@, Step("incomplete", inc, newValue, old, new))]

RECURSIVE completeLoop(_, _, _, _)
completeLoop(acc, sorted, n, mode) ==
    IF n > Len(sorted) THEN acc
    ELSE completeLoop(completeOne(acc, sorted[n], mode), sorted, n + 1, mode)

\* "return { content: newContent, changed: count > 0, count }"
completeResult(end) ==
    [content |-> end.content, changed |-> end.count > 0,
     count |-> end.count, unknownKeys |-> end.unknownKeys,
     propertyUpdates |-> end.propertyUpdates, steps |-> end.steps]

\* completeIncompleteExpansions from its scan result on
completeFound(text, mode, unknownKeys, propertyUpdates, incomplete) ==
    IF Len(incomplete) = 0
    THEN [content |-> text, changed |-> FALSE, count |-> 0,
          unknownKeys |-> unknownKeys, propertyUpdates |-> propertyUpdates,
          steps |-> <<>>]
    ELSE completeResult(
            completeLoop([content |-> text, count |-> 0, unknownKeys |-> unknownKeys,
                          propertyUpdates |-> propertyUpdates, steps |-> <<>>],
                         sortByStartOffsetDescending(incomplete), 1, mode))

\* returns the code's {content, changed, count}; unknownKeys and
\* propertyUpdates are the caller's arrays, which the code appends to
completeIncompleteExpansions(text, mode, unknownKeys, propertyUpdates) ==
    completeFound(text, mode, unknownKeys, propertyUpdates,
                  findIncompleteExpansions(text))

\* the body of "for (const match of sortedMatches)" in replaceExpansions
replaceOne(acc, match, mode) ==
    IF mode = "auto" /\ match.updateMode # "auto" THEN acc
    ELSE IF match.updateMode \in {"once", "once-and-eject"}
            /\ ~trimIsEmpty(match.currentValue)
    THEN acc
    ELSE
    LET newValue == getReplacementValue(match.key)
        old == acc.newContent
    IN IF ~newValue.found
       THEN [acc EXCEPT !.unknownKeys = pushUnknown(@, match.key)]
       ELSE IF match.currentValue = newValue.value
       THEN IF isPropertyKey(match.key)
            THEN [acc EXCEPT !.propertyUpdates =
                                 Append(@, [propertyName |-> getPropertyName(match.key),
                                            value |-> newValue.value])]
            ELSE acc
       ELSE IF isPropertyKey(match.key)
       THEN [acc EXCEPT !.propertyUpdates =
                            Append(@, [propertyName |-> getPropertyName(match.key),
                                       value |-> newValue.value]),
                        !.replacementsCount = @ + 1,
                        !.hasChanges = TRUE]
       ELSE
       LET new == IF match.updateMode = "once-and-eject"
                  THEN substring(old, 0, match.startOffset) \o newValue.value
                       \o substringFrom(old, match.endOffset)
                  ELSE replaceMatch(old, match, newValue.value)
       IN [acc EXCEPT !.newContent = new,
                      !.replacementsCount = @ + 1,
                      !.hasChanges = TRUE,
                      !.steps = Append(@, Step("complete", match, newValue, old, new))]

RECURSIVE replaceLoop(_, _, _, _)
replaceLoop(acc, sortedMatches, n, mode) ==
    IF n > Len(sortedMatches) THEN acc
    ELSE replaceLoop(replaceOne(acc, sortedMatches[n], mode), sortedMatches, n + 1, mode)

\* the locals of replaceExpansions after the completion of incomplete
\* openings: "if (incompleteResult.changed) { newContent = ...; hasChanges =
\* true; replacementsCount += incompleteResult.count }"
replaceStart(text, incompleteResult) ==
    [newContent |-> IF incompleteResult.changed
                    THEN incompleteResult.content ELSE text,
     replacementsCount |-> IF incompleteResult.changed
                           THEN incompleteResult.count ELSE 0,
     hasChanges |-> incompleteResult.changed,
     unknownKeys |-> incompleteResult.unknownKeys,
     propertyUpdates |-> incompleteResult.propertyUpdates,
     steps |-> incompleteResult.steps]

\* a result that always carries the working text, changed or not
replaceResultNeverNull(end) ==
    [isNull |-> FALSE,
     newContent |-> end.newContent,
     unknownKeys |-> end.unknownKeys,
     replacementsCount |-> end.replacementsCount,
     propertyUpdates |-> end.propertyUpdates,
     steps |-> end.steps]

\* newContent is meaningful when isNull is FALSE; isNull stands for
\* "newContent: hasChanges ? newContent : null"
replaceResult(end) ==
    [isNull |-> ~end.hasChanges,
     newContent |-> IF end.hasChanges THEN end.newContent ELSE <<>>,
     unknownKeys |-> end.unknownKeys,
     replacementsCount |-> end.replacementsCount,
     propertyUpdates |-> end.propertyUpdates,
     steps |-> end.steps]

\* replaceExpansions from "const matches = findExpansions(newContent)" on
replaceFound(start, mode) ==
    replaceResult(
        replaceLoop(start,
                    sortByStartOffsetDescending(findExpansions(start.newContent)),
                    1, mode))

replaceExpansions(text, mode) ==
    replaceFound(
        replaceStart(text, completeIncompleteExpansions(text, mode, <<>>, <<>>)),
        mode)

(***************************************************************************)
(* Frontmatter utilities (string.spec.ts).  Here a text is a sequence of   *)
(* characters.                                                             *)
(***************************************************************************)
NL == "\n"

\* String.prototype.slice(a, b) and slice(a), for 0 <= a
slice(text, a, b) == SubSeq(text, a + 1, IF b < Len(text) THEN b ELSE Len(text))
sliceFrom(text, a) == SubSeq(text, a + 1, Len(text))

\* String.prototype.indexOf(pat, from): offset from 0, -1 if there is none
indexOf(text, pat, from) ==
    LET ds == {d \in from..(Len(text) - Len(pat)) : slice(text, d, d + Len(pat)) = pat}
    IN IF ds = {} THEN -1 ELSE CHOOSE d \in ds : \A e \in ds : d <= e

\* String.prototype.includes
includes(text, pat) == indexOf(text, pat, 0) # -1

\* String.prototype.endsWith
endsWith(text, v) ==
    Len(v) <= Len(text) /\ SubSeq(text, Len(text) - Len(v) + 1, Len(text)) = v

RECURSIVE split(_, _)
\* String.prototype.split(sep), sep one character
split(text, sep) ==
    LET d == indexOf(text, <<sep>>, 0)
    IN IF d = -1 THEN <<text>>
       ELSE <<slice(text, 0, d)>> \o split(sliceFrom(text, d + 1), sep)

RECURSIVE join(_, _)
\* Array.prototype.join(sep)
join(lines, sep) ==
    IF Len(lines) = 0 THEN <<>>
    ELSE IF Len(lines) = 1 THEN lines[1]
    ELSE lines[1] \o sep \o join(Tail(lines), sep)

RECURSIVE trimStart(_)
trimStart(text) ==
    IF Len(text) > 0 /\ text[1] \in {" ", NL} THEN trimStart(Tail(text)) ELSE text

RECURSIVE trimEnd(_)
trimEnd(text) ==
    IF Len(text) > 0 /\ text[Len(text)] \in {" ", NL}
    THEN trimEnd(SubSeq(text, 1, Len(text) - 1)) ELSE text

\* String.prototype.trim
trim(text) == trimEnd(trimStart(text))

Dashes == <<"-", "-", "-">>

\* the code's data field, which updateFrontmatterProperty does not read, is
\* left out; isNull stands for "return null"
parseFrontmatter(text) ==
    IF ~startsWith(text, Dashes)
    THEN [isNull |-> TRUE, startOffset |-> 0, endOffset |-> 0, raw |-> <<>>]
    ELSE LET endMatch == indexOf(text, <<NL>> \o Dashes, 3)
         IN IF endMatch = -1
            THEN [isNull |-> TRUE, startOffset |-> 0, endOffset |-> 0, raw |-> <<>>]
            ELSE [isNull |-> FALSE, startOffset |-> 0, endOffset |-> endMatch + 4,
                  raw |-> slice(text, 4, endMatch)]

Digits == {"0", "1", "2", "3", "4", "5", "6", "7", "8", "9"}

\* !isNaN(Number(value)) for a value of digits, letters, ":" and spaces:
\* the empty and the all-blank text convert to 0, a text of digits (blanks
\* around it) to its number, every other such text to NaN
isNumeric(value) == \A i \in 1..Len(trim(value)) : trim(value)[i] \in Digits

RECURSIVE escapeQuotes(_)
\* value.replace(/"/g, '\\"')
escapeQuotes(value) ==
    IF Len(value) = 0 THEN <<>>
    ELSE (IF value[1] = "\"" THEN <<"\\", "\"">> ELSE <<value[1]>>)
         \o escapeQuotes(Tail(value))

formatYamlValue(value) ==
    LET needsQuotes ==
            \/ includes(value, <<":">>)
            \/ includes(value, <<"#">>)
            \/ includes(value, <<"'">>)
            \/ includes(value, <<"\"">>)
            \/ includes(value, <<NL>>)
            \/ startsWith(value, <<" ">>)
            \/ endsWith(value, <<" ">>)
            \/ value = <<"t", "r", "u", "e">>
            \/ value = <<"f", "a", "l", "s", "e">>
            \/ value = <<"n", "u", "l", "l">>
            \/ value = <<>>
            \/ isNumeric(value)
    IN IF needsQuotes THEN <<"\"">> \o escapeQuotes(value) \o <<"\"">> ELSE value

\* `${propertyName}: ${formatYamlValue(value)}`
propertyLine(propertyName, value) ==
    propertyName \o <<":", " ">> \o formatYamlValue(value)

\* the for loop of updateFrontmatterProperty with its "if (!found)"
updateLines(lines, propertyName, value) ==
    LET isProperty(line) == startsWith(trim(line), propertyName \o <<":">>)
        found == \E i \in 1..Len(lines) : isProperty(lines[i])
        newLines == [i \in 1..Len(lines) |->
                        IF isProperty(lines[i]) THEN propertyLine(propertyName, value)
                        ELSE lines[i]]
    IN IF found THEN newLines ELSE Append(newLines, propertyLine(propertyName, value))

\* updateFrontmatterProperty once parseFrontmatter has returned
updateParsed(text, parsed, propertyName, value) ==
    IF parsed.isNull
    THEN Dashes \o <<NL>> \o propertyLine(propertyName, value) \o <<NL>> \o Dashes
         \o <<NL>> \o text
    ELSE Dashes \o <<NL>>
         \o join(updateLines(split(parsed.raw, NL), propertyName, value), <<NL>>)
         \o <<NL>> \o Dashes \o sliceFrom(text, parsed.endOffset)

updateFrontmatterProperty(text, propertyName, value) ==
    updateParsed(text, parseFrontmatter(text), propertyName, value)

(***************************************************************************)
(* Function evaluator (expander.service.ts, lines 330-937).  An expression *)
(* and every string value is a sequence of characters.                     *)
(***************************************************************************)
LowerLetters == <<"a", "b", "c", "d", "e", "f", "g", "h", "i", "j", "k", "l", "m", "n", "o", "p", "q", "r", "s", "t", "u", "v", "w", "x", "y", "z">>
UpperLetters == <<"A", "B", "C", "D", "E", "F", "G", "H", "I", "J", "K", "L", "M", "N", "O", "P", "Q", "R", "S", "T", "U", "V", "W", "X", "Y", "Z">>
\* the position of a letter in its alphabet, 0 for another character
letterIndex(letters, c) ==
    IF \E n \in 1..Len(letters) : letters[n] = c
    THEN CHOOSE n \in 1..Len(letters) : letters[n] = c
    ELSE 0

\* String.prototype.toUpperCase and toLowerCase, character by character
toUpperCase(str) ==
    [n \in 1..Len(str) |->
        IF letterIndex(LowerLetters, str[n]) # 0
        THEN UpperLetters[letterIndex(LowerLetters, str[n])] ELSE str[n]]

toLowerCase(str) ==
    [n \in 1..Len(str) |->
        IF letterIndex(UpperLetters, str[n]) # 0
        THEN LowerLetters[letterIndex(UpperLetters, str[n])] ELSE str[n]]

\* /\s/, /[0-9]/, /[0-9.]/, /[a-zA-Z_]/, /[a-zA-Z0-9_]/
isSpace(c) == c \in {" ", NL, "\t"}
isDigit(c) == c \in Digits
isDigitOrDot(c) == isDigit(c) \/ c = "."
isIdentStart(c) ==
    letterIndex(LowerLetters, c) # 0 \/ letterIndex(UpperLetters, c) # 0 \/ c = "_"
isIdentPart(c) == isIdentStart(c) \/ isDigit(c)

Tok(type, value) == [type |-> type, value |-> value]

RECURSIVE readString(_, _, _, _)
\* the inner while loop of the string literal case: i is the offset (from 0)
\* of the next character, str the text read so far; returns the text and the
\* offset behind the closing quote
readString(expression, i, quote, str) ==
    IF ~(i < Len(expression) /\ expression[i + 1] # quote)
    THEN [str |-> str, i |-> i + 1]
    ELSE IF expression[i + 1] = "\\" /\ i + 1 < Len(expression)
    THEN LET nextChar == expression[i + 2]
         IN readString(expression, i + 2, quote,
                       Append(str, IF nextChar = "n" THEN NL
                                   ELSE IF nextChar = "t" THEN "\t" ELSE nextChar))
    ELSE readString(expression, i + 1, quote, Append(str, expression[i + 1]))

RECURSIVE readDigits(_, _)
\* the offset behind the run of [0-9.] that starts at offset i
readDigits(expression, i) ==
    IF i < Len(expression) /\ isDigitOrDot(expression[i + 1])
    THEN readDigits(expression, i + 1) ELSE i

RECURSIVE readName(_, _)
\* the offset behind the run of [a-zA-Z0-9_] that starts at offset i
readName(expression, i) ==
    IF i < Len(expression) /\ isIdentPart(expression[i + 1])
    THEN readName(expression, i + 1) ELSE i

\* the token that starts at offset i, which holds no whitespace, and the
\* offset behind it
nextToken(expression, i) ==
    LET char == expression[i + 1]
    IN IF char = "." THEN [tok |-> Tok("DOT", <<".">>), i |-> i + 1]
       ELSE IF char = "(" THEN [tok |-> Tok("LPAREN", <<"(">>), i |-> i + 1]
       ELSE IF char = ")" THEN [tok |-> Tok("RPAREN", <<")">>), i |-> i + 1]
       ELSE IF char = "," THEN [tok |-> Tok("COMMA", <<",">>), i |-> i + 1]
       ELSE IF char = "'" \/ char = "\""
       THEN LET r == readString(expression, i + 1, char, <<>>)
            IN [tok |-> Tok("STRING", r.str), i |-> r.i]
       ELSE IF isDigit(char)
               \/ (char = "-" /\ i + 1 < Len(expression) /\ isDigit(expression[i + 2]))
       THEN LET from == IF char = "-" THEN i + 1 ELSE i
                to == readDigits(expression, from)
            IN [tok |-> Tok("NUMBER", slice(expression, i, to)), i |-> to]
       ELSE IF isIdentStart(char)
       THEN LET to == readName(expression, i)
            IN [tok |-> Tok("IDENTIFIER", slice(expression, i, to)), i |-> to]
       ELSE [tok |-> Tok("UNKNOWN", <<char>>), i |-> i + 1]

RECURSIVE tokenizeFrom(_, _)
\* the outer while loop of tokenize, from offset i on
tokenizeFrom(expression, i) ==
    IF ~(i < Len(expression)) THEN <<Tok("EOF", <<>>)>>
    ELSE IF isSpace(expression[i + 1]) THEN tokenizeFrom(expression, i + 1)
    ELSE LET t == nextToken(expression, i)
         IN <<t.tok>> \o tokenizeFrom(expression, t.i)

tokenize(expression) == tokenizeFrom(expression, 0)

\* tokens[pos], pos from 0; type "none" stands for undefined
tokenAt(tokens, pos) ==
    IF pos < Len(tokens) THEN tokens[pos + 1] ELSE Tok("none", <<>>)

NoContext ==
    [present |-> FALSE,
     file |-> [basename |-> <<>>, path |-> <<>>, extension |-> <<>>, ctime |-> <<>>]]

\* String.prototype.lastIndexOf of one character: offset from 0, -1 if none
lastIndexOf(text, c) ==
    LET ds == {d \in 0..(Len(text) - 1) : text[d + 1] = c}
    IN IF ds = {} THEN -1 ELSE CHOOSE d \in ds : \A e \in ds : e <= d

\* getFileFields: the folder is the path without its last part, "/" if that
\* is empty; a Date is the text toISOString gives for it; mtime is left out
\* (no expression of the model reads it)
getFileFields(file) ==
    LET cut == lastIndexOf(file.path, "/")
        joined == IF cut = -1 THEN <<>> ELSE slice(file.path, 0, cut)
    IN [name |-> file.basename,
        path |-> file.path,
        folder |-> IF joined = <<>> THEN <<"/">> ELSE joined,
        ext |-> file.extension,
        ctime |-> file.ctime]

\* resolveFileFieldValue, for the fields name, path, folder, ext, ctime and
\* unknown fields
resolveFileFieldValue(fields, fieldName) ==
    IF fieldName = <<"n", "a", "m", "e">> THEN fields.name
    ELSE IF fieldName = <<"p", "a", "t", "h">> THEN fields.path
    ELSE IF fieldName = <<"f", "o", "l", "d", "e", "r">> THEN fields.folder
    ELSE IF fieldName = <<"e", "x", "t">> THEN fields.ext
    ELSE IF fieldName = <<"c", "t", "i", "m", "e">> THEN fields.ctime
    ELSE <<>>

FileName == <<"f", "i", "l", "e">>

\* "const commaToken = tokens[pos]; if (commaToken.type === 'COMMA') pos++"
skipComma(tokens, pos) ==
    IF tokenAt(tokens, pos).type = "COMMA" THEN pos + 1 ELSE pos

RECURSIVE parseArgs(_, _, _, _)
\* the "Parse arguments" while loop of parseExpression: returns the arguments
\* and the position behind them
parseArgs(tokens, pos, args, context) ==
    IF ~(pos < Len(tokens)) THEN [args |-> args, pos |-> pos]
    ELSE
    LET argToken == tokenAt(tokens, pos)
    IN IF argToken.type = "RPAREN" THEN [args |-> args, pos |-> pos + 1]
       ELSE IF argToken.type \in {"STRING", "NUMBER"}
       THEN parseArgs(tokens, skipComma(tokens, pos + 1), Append(args, argToken.value),
                      context)
       ELSE IF argToken.type = "IDENTIFIER" /\ argToken.value = FileName
       THEN \* pos++ (skip 'file'), then DOT and field name if they follow
            IF tokenAt(tokens, pos + 1).type = "DOT"
            THEN IF tokenAt(tokens, pos + 2).type = "IDENTIFIER"
                 THEN parseArgs(tokens, skipComma(tokens, pos + 3),
                                IF context.present
                                THEN Append(args,
                                        resolveFileFieldValue(getFileFields(context.file),
                                                              tokenAt(tokens, pos + 2).value))
                                ELSE args,
                                context)
                 ELSE \* 'file' and DOT skipped, then the final pos++
                      parseArgs(tokens, pos + 3, args, context)
            ELSE \* 'file' skipped, then the final pos++
                 parseArgs(tokens, pos + 2, args, context)
       ELSE parseArgs(tokens, pos + 1, args, context)

Element(type, name, args) == [type |-> type, name |-> name, args |-> args]

RECURSIVE parseFrom(_, _, _, _)
\* the outer while loop of parseExpression
parseFrom(tokens, pos, elements, context) ==
    IF ~(pos < Len(tokens)) THEN elements
    ELSE
    LET token == tokenAt(tokens, pos)
        nextTok == tokenAt(tokens, pos + 1)
    IN IF token.type = "EOF" THEN elements
       ELSE IF token.type = "DOT" THEN parseFrom(tokens, pos + 1, elements, context)
       ELSE IF token.type = "IDENTIFIER"
       THEN IF nextTok.type = "LPAREN"
            THEN LET a == parseArgs(tokens, pos + 2, <<>>, context)
                 IN parseFrom(tokens, a.pos,
                              Append(elements, Element("function", token.value, a.args)),
                              context)
            ELSE IF token.value = FileName
            THEN IF nextTok.type = "DOT"
                 THEN IF tokenAt(tokens, pos + 2).type = "IDENTIFIER"
                      THEN parseFrom(tokens, pos + 3,
                                     Append(elements,
                                            Element("fileField",
                                                    tokenAt(tokens, pos + 2).value, <<>>)),
                                     context)
                      ELSE parseFrom(tokens, pos + 2, elements, context)
                 ELSE parseFrom(tokens, pos + 1, elements, context)
            ELSE parseFrom(tokens, pos + 1,
                           Append(elements, Element("property", token.value, <<>>)),
                           context)
       ELSE parseFrom(tokens, pos + 1, elements, context)

parseExpression(tokens, context) == parseFrom(tokens, 0, <<>>, context)

\* evaluation results: a StringValue, a plain string or a boolean
StringValue(s) == [kind |-> "StringValue", s |-> s, b |-> FALSE]
PlainString(s) == [kind |-> "string", s |-> s, b |-> FALSE]
Boolean(b) == [kind |-> "boolean", s |-> <<>>, b |-> b]
\* a DateValue holds the text toISOString gives for its date, a NumberValue
\* the text String gives for its number ("NaN" for NaN), a string[] its
\* elements
DateValue(iso) == [kind |-> "DateValue", s |-> iso, b |-> FALSE]
NumberValue(num) == [kind |-> "NumberValue", s |-> num, b |-> FALSE]
StringList(list) == [kind |-> "array", s |-> list, b |-> FALSE]

NaN == <<"N", "a", "N">>

\* parseNumber: parseFloat of a text whose leading run of digits and "." is
\* the decimal the number prints as; NaN when the text starts with neither
parseNumber(input) ==
    NumberValue(IF readDigits(input, 0) = 0 THEN NaN
                ELSE slice(input, 0, readDigits(input, 0)))

\* NumberValue.floor, for NaN and numbers that are not negative
floor(value) ==
    NumberValue(IF includes(value.s, <<".">>)
                THEN slice(value.s, 0, indexOf(value.s, <<".">>, 0)) ELSE value.s)

\* DateValue.format, for the patterns YYYY and YYYY-MM-DD and a date at noon
\* in the middle of its year (the local date is the date of the ISO text)
formatDate(date, pattern) ==
    IF pattern = <<"Y", "Y", "Y", "Y">> THEN slice(date, 0, 4) ELSE slice(date, 0, 10)
createString(s) == StringValue(s)

\* what a call gives: a value, or an exception
Returns(v) == [threw |-> FALSE, val |-> v]

\* args[n] ?? fallback, n from 0
argOr(args, n, fallback) == IF n < Len(args) THEN args[n + 1] ELSE fallback

RECURSIVE parenDepth(_, _)
\* the nesting depth behind the pattern, -1 once a ")" closes no "("
parenDepth(pattern, depth) ==
    IF depth < 0 THEN -1
    ELSE IF Len(pattern) = 0 THEN depth
    ELSE parenDepth(Tail(pattern),
                    IF pattern[1] = "(" THEN depth + 1
                    ELSE IF pattern[1] = ")" THEN depth - 1 ELSE depth)

\* new RegExp(pattern, 'g') for a pattern of letters, digits, blanks and
\* parentheses: a SyntaxError unless the parentheses match
regExpThrows(pattern) == parenDepth(pattern, 0) # 0

isNoParen(c) == c \notin {"(", ")"}

\* what such a pattern matches: its characters without the (capturing)
\* parentheses
regExpLiteral(pattern) == SelectSeq(pattern, isNoParen)

RECURSIVE replaceEvery(_, _, _)
\* str.replace(/literal/g, replacement), literal not empty
replaceEvery(str, literal, replacement) ==
    IF Len(str) < Len(literal) THEN str
    ELSE IF SubSeq(str, 1, Len(literal)) = literal
    THEN replacement \o replaceEvery(sliceFrom(str, Len(literal)), literal, replacement)
    ELSE <<str[1]>> \o replaceEvery(Tail(str), literal, replacement)

RECURSIVE replaceBetween(_, _)
\* str.replace(/(?:)/g, replacement): the replacement before every character
\* and at the end
replaceBetween(str, replacement) ==
    IF Len(str) = 0 THEN replacement
    ELSE replacement \o <<str[1]>> \o replaceBetween(Tail(str), replacement)

\* StringValue.replace
stringReplace(s, pattern, replacement) ==
    IF regExpThrows(pattern) THEN [threw |-> TRUE, val |-> PlainString(<<>>)]
    ELSE IF regExpLiteral(pattern) = <<>>
    THEN Returns(StringValue(replaceBetween(s, replacement)))
    ELSE Returns(StringValue(replaceEvery(s, regExpLiteral(pattern), replacement)))

reverse(s) == [n \in 1..Len(s) |-> s[Len(s) - n + 1]]

\* evaluateTruthiness
evaluateTruthiness(value) ==
    LET trimmed == toLowerCase(trim(value))
    IN /\ trimmed # <<>>
       /\ trimmed # <<"f", "a", "l", "s", "e">>
       /\ trimmed # <<"0">>
       /\ trimmed # <<"n", "u", "l", "l">>
       /\ trimmed # <<"u", "n", "d", "e", "f", "i", "n", "e", "d">>

\* evaluateInitialFunction, for upper, lower, trim, replace, number, if and
\* unknown names
evaluateInitialFunction(name, args) ==
    IF name = <<"u", "p", "p", "e", "r">>
    THEN Returns(StringValue(toUpperCase(argOr(args, 0, <<>>))))
    ELSE IF name = <<"l", "o", "w", "e", "r">>
    THEN Returns(StringValue(toLowerCase(argOr(args, 0, <<>>))))
    ELSE IF name = <<"t", "r", "i", "m">>
    THEN Returns(StringValue(trim(argOr(args, 0, <<>>))))
    ELSE IF name = <<"r", "e", "p", "l", "a", "c", "e">>
    THEN stringReplace(argOr(args, 0, <<>>), argOr(args, 1, <<>>), argOr(args, 2, <<>>))
    ELSE IF name = <<"n", "u", "m", "b", "e", "r">>
    THEN Returns(parseNumber(argOr(args, 0, <<"0">>)))
    ELSE IF name = <<"i", "f">>
    THEN Returns(createString(IF evaluateTruthiness(argOr(args, 0, <<>>))
                              THEN argOr(args, 1, <<>>) ELSE argOr(args, 2, <<>>)))
    ELSE Returns(createString(<<>>))

\* applyStringMethod, for lower, upper, trim, replace, startsWith, endsWith,
\* contains, isEmpty, reverse, split (by one character, no limit), format
\* and unknown names
applyStringMethod(value, name, args) ==
    IF name = <<"l", "o", "w", "e", "r">> THEN Returns(StringValue(toLowerCase(value.s)))
    ELSE IF name = <<"u", "p", "p", "e", "r">> THEN Returns(StringValue(toUpperCase(value.s)))
    ELSE IF name = <<"t", "r", "i", "m">> THEN Returns(StringValue(trim(value.s)))
    ELSE IF name = <<"r", "e", "p", "l", "a", "c", "e">>
    THEN stringReplace(value.s, argOr(args, 0, <<>>), argOr(args, 1, <<>>))
    ELSE IF name = <<"s", "t", "a", "r", "t", "s", "W", "i", "t", "h">>
    THEN Returns(Boolean(startsWith(value.s, argOr(args, 0, <<>>))))
    ELSE IF name = <<"e", "n", "d", "s", "W", "i", "t", "h">>
    THEN Returns(Boolean(endsWith(value.s, argOr(args, 0, <<>>))))
    ELSE IF name = <<"c", "o", "n", "t", "a", "i", "n", "s">>
    THEN Returns(Boolean(includes(value.s, argOr(args, 0, <<>>))))
    ELSE IF name = <<"i", "s", "E", "m", "p", "t", "y">>
    THEN Returns(Boolean(Len(value.s) = 0))
    ELSE IF name = <<"r", "e", "v", "e", "r", "s", "e">>
    THEN Returns(StringValue(reverse(value.s)))
    ELSE IF name = <<"s", "p", "l", "i", "t">> /\ Len(argOr(args, 0, <<>>)) = 1
    THEN Returns(StringList(split(value.s, args[1][1])))
    ELSE Returns(value)

\* applyDateMethod, for format and the names it defines no case for
applyDateMethod(value, name, args) ==
    IF name = <<"f", "o", "r", "m", "a", "t">>
    THEN Returns(PlainString(formatDate(value.s, argOr(args, 0, <<"Y", "Y", "Y", "Y", "-", "M", "M", "-", "D", "D">>))))
    ELSE applyStringMethod(createString(value.s), name, args)

\* applyNumberMethod, for floor and the names it defines no case for
applyNumberMethod(value, name, args) ==
    IF name = <<"f", "l", "o", "o", "r">> THEN Returns(floor(value))
    ELSE applyStringMethod(createString(value.s), name, args)

\* resolveFileField, for the fields name, path, folder, ext, ctime and unknown
\* fields
resolveFileField(fields, fieldName) ==
    IF fieldName = <<"c", "t", "i", "m", "e">> THEN DateValue(fields.ctime)
    ELSE createString(resolveFileFieldValue(fields, fieldName))

RECURSIVE evaluateChain(_, _, _)
\* the "Process remaining chain" loop of evaluateExpression: i counts the
\* elements from 1, result is what the elements before i gave
evaluateChain(result, elements, i) ==
    IF result.threw \/ i > Len(elements) THEN result
    ELSE IF elements[i].type \notin {"function", "property"}
    THEN evaluateChain(result, elements, i + 1)
    ELSE IF result.val.kind = "DateValue"
    THEN evaluateChain(applyDateMethod(result.val, elements[i].name, elements[i].args),
                       elements, i + 1)
    ELSE IF result.val.kind = "NumberValue"
    THEN evaluateChain(applyNumberMethod(result.val, elements[i].name, elements[i].args),
                       elements, i + 1)
    ELSE IF result.val.kind \in {"StringValue", "string"}
    THEN evaluateChain(applyStringMethod(createString(result.val.s), elements[i].name,
                                         elements[i].args),
                       elements, i + 1)
    ELSE evaluateChain(result, elements, i + 1)

evaluateExpression(elements, context) ==
    IF Len(elements) = 0 THEN Returns(PlainString(<<>>))
    ELSE IF elements[1].type = "fileField"
    THEN IF ~context.present THEN Returns(PlainString(<<>>))
         ELSE evaluateChain(Returns(resolveFileField(getFileFields(context.file),
                                                     elements[1].name)),
                            elements, 2)
    ELSE IF elements[1].type = "function"
    THEN evaluateChain(evaluateInitialFunction(elements[1].name, elements[1].args),
                       elements, 2)
    ELSE Returns(PlainString(<<>>))

\* resultToString
resultToString(result) ==
    IF result.kind = "boolean"
    THEN (IF result.b THEN <<"t", "r", "u", "e">> ELSE <<"f", "a", "l", "s", "e">>)
    ELSE IF result.kind = "array" THEN join(result.s, <<",", " ">>)
    ELSE result.s

isDynamicExpression(value) ==
    (includes(value, <<"(">>) /\ includes(value, <<")">>))
    \/ startsWith(value, <<"f", "i", "l", "e", ".">>)

\* the body of evaluateValue's try block
tryEvaluate(value, context) ==
    evaluateExpression(parseExpression(tokenize(value), context), context)

\* a catch block that returns the empty text
caughtEmpty(value, r) == IF r.threw THEN <<>> ELSE resultToString(r.val)

\* "catch (error) { return value }" after the try block has run
caught(value, r) == IF r.threw THEN value ELSE resultToString(r.val)

evaluateValue(value, context) ==
    IF ~isDynamicExpression(value) THEN value
    ELSE caught(value, tryEvaluate(value, context))

(***************************************************************************)
(* Inputs                                                                  *)
(***************************************************************************)
Alphabet ==
    {Open(m, KeyA, "canon") : m \in UpdateMode}
    \cup {Open("auto", KeyB, "canon"), Open("auto", KeyA, "loose"),
          Open("auto", KeyProp, "canon")}
    \cup {Close("canon"), Close("loose")}
    \cup {Ch("x"), Ch(" ")}

Texts == UNION {[1..n -> Alphabet] : n \in 0..MaxLen}

\* notes that hold two pairs one after the other
PairTexts ==
    {<<Open(m1, k1, "canon")>> \o v \o <<Close("canon"), Open(m2, k2, "canon"), Close("canon")>> :
        m1 \in {"auto", "manual"}, m2 \in {"auto", "manual"},
        k1 \in {KeyA, KeyB}, k2 \in {KeyA, KeyB}, v \in {<<>>, <<Ch("x")>>}}

Disabled == [enabled |-> FALSE, value |-> <<>>]
Enabled(v) == [enabled |-> TRUE, value |-> v]

\* the replacement lists a user may have configured
ReplacementLists ==
    {[k \in Keys |-> IF k = KeyA THEN a ELSE IF k = KeyB THEN b ELSE p] :
        a \in {Disabled, Enabled(<<>>), Enabled(<<Ch("x")>>)},
        b \in {Disabled, Enabled(<<Ch("y")>>)},
        p \in {Enabled(<<Ch("x")>>)}}

NoPass ==
    [input |-> <<>>, mode |-> "none",
     result |-> [isNull |-> TRUE, newContent |-> <<>>, unknownKeys |-> <<>>,
                 replacementsCount |-> 0, propertyUpdates |-> <<>>, steps |-> <<>>],
     writes |-> <<>>, replacementsCount |-> 0, pair |-> 0]

\* no evaluateValue call yet
NoEvaluation ==
    [value |-> <<>>, context |-> NoContext, result |-> <<>>, threw |-> FALSE,
     done |-> FALSE]

\* the plugin before onload
NotLoaded ==
    [settings |-> [disableAutomaticUpdates |-> FALSE, ignoredFolders |-> <<>>,
                   foldersToScan |-> <<>>],
     timeoutId |-> "null", lastArgs |-> <<>>, timers |-> 0, elapsed |-> 0,
     burst |-> <<>>, ran |-> <<>>, runs |-> 0, unloaded |-> FALSE,
     awaiting |-> {}, passed |-> {}, events |-> 0]

NoUpdate ==
    [input |-> <<>>, propertyName |-> <<>>, value |-> <<>>, result |-> <<>>,
     done |-> FALSE]

\* the number of files of the vault, and the batchSize processInBatches is
\* given
VaultFiles == 4

BatchSize == 2

\* a processFile call before it starts: the ProcessingResult it builds
\* (file, replacementsCount, errors), the text vault.read gave it and the
\* text it is about to write; failed and over are history: whether a vault
\* operation of the call failed, and the text its vault.modify replaced
NoCall ==
    [pc |-> "idle", file |-> 0, mode |-> "all", snapshot |-> <<>>,
     finalContent |-> <<>>, count |-> 0, replacementsCount |-> 0,
     errors |-> <<>>, failed |-> FALSE, over |-> <<>>]

\* the vault before processVault is called; call VaultFiles + 1 is the one
\* of the modify handler
NoVault ==
    [disk |-> [f \in 1..VaultFiles |-> <<>>],
     calls |-> [c \in 1..(VaultFiles + 1) |-> NoCall],
     i |-> 0, running |-> FALSE, results |-> <<>>,
     returned |-> FALSE, rejected |-> FALSE, edited |-> FALSE]

Init ==
    /\ content \in Texts \cup PairTexts
    /\ replacements \in ReplacementLists
    /\ last = NoPass
    /\ fm = NoUpdate
    /\ plugin = NotLoaded
    /\ ev = NoEvaluation
    /\ vault = NoVault

(***************************************************************************)
(* One pass over the note: replaceExpansions(content, mode), whose output   *)
(* (newContent ?? content) becomes the note's text.  A note that passes    *)
(* have grown more than two tokens beyond the longest typed text is left   *)
(* alone.                                                                  *)
(***************************************************************************)
\* "finalContent = replacementResult.newContent ?? content; if (hasChanges &&
\* finalContent !== content) vault.modify(file, finalContent)".  The scanner
\* reports no property key, so propertyUpdates is empty and the frontmatter
\* loop between the two statements runs zero times.
\* last.writes lists the texts vault.modify was called with by the pass,
\* last.replacementsCount is the count the ProcessingResult reports, last.pair
\* is the pair whose refresh button was clicked (0 for a pass).
\* a processFile that calls vault.modify without testing for a change
modifyAlways(input, mode, r) ==
    /\ last' = [input |-> input, mode |-> mode, result |-> r,
                writes |-> <<IF r.isNull THEN input ELSE r.newContent>>,
                replacementsCount |-> r.replacementsCount, pair |-> 0]
    /\ content' = IF r.isNull THEN input ELSE r.newContent

modify(input, mode, r) ==
    LET finalContent == IF r.isNull THEN input ELSE r.newContent
        hasChanges == ~r.isNull \/ Len(r.propertyUpdates) > 0
    IN IF hasChanges /\ finalContent # input
       THEN /\ last' = [input |-> input, mode |-> mode, result |-> r,
                        writes |-> <<finalContent>>,
                        replacementsCount |-> r.replacementsCount, pair |-> 0]
            /\ content' = finalContent
       ELSE /\ last' = [input |-> input, mode |-> mode, result |-> r,
                        writes |-> <<>>, replacementsCount |-> 0, pair |-> 0]
            /\ content' = content

Pass(mode) ==
    /\ Len(content) <= MaxLen + 2
    /\ modify(content, mode, replaceExpansions(content, mode))
    /\ UNCHANGED <<replacements, fm, plugin, ev, vault>>

Next == Pass("auto") \/ Pass("all")

Spec == Init /\ [][Next]_vars

(***************************************************************************)
(* The refresh button of a pair: processExpansion(file, match.key)          *)
(***************************************************************************)
\* the text processExpansion leaves in the file.  The matches hold no
\* property key (OPENING_MARKER_REGEX), so the isPropertyKey branch is not
\* taken.
processExpansion(text, key) ==
    LET matches == findExpansions(text)
        withKey == {n \in 1..Len(matches) : matches[n].key = key}
        match == matches[CHOOSE n \in withKey : \A k \in withKey : n <= k]
        newValue == getReplacementValue(key)
    IN IF withKey = {} \/ ~newValue.found THEN text
       ELSE IF match.currentValue # newValue.value
       THEN replaceMatch(text, match, newValue.value)
       ELSE text

\* the button of the pair-th pair of the note is clicked
Refresh ==
    \E pair \in 1..Len(findExpansions(content)) :
        /\ last.mode = "none"
        /\ content' = processExpansion(content, findExpansions(content)[pair].key)
        /\ last' = [NoPass EXCEPT !.input = content, !.mode = "refresh", !.pair = pair]
        /\ UNCHANGED <<replacements, fm, plugin, ev, vault>>

SpecRefresh == Init /\ [][Refresh]_vars

(***************************************************************************)
(* The automatic-update cycle on one note: the 'modify' event of the user's *)
(* edit, or of the write of the pass before, runs processFile(file, 'auto') *)
(* once the debounce delay is over; a pass that writes nothing raises no    *)
(* event.  A note that passes have grown beyond LoopMaxLen tokens is left   *)
(* alone.                                                                   *)
(***************************************************************************)
LoopMaxLen == 3 * MaxLen + 3

InitLoop ==
    /\ content = <<>>
    /\ replacements \in ReplacementLists
    /\ last = NoPass
    /\ fm = NoUpdate
    /\ plugin = NotLoaded
    /\ ev = NoEvaluation
    /\ vault = NoVault

\* the user's one edit, which raises 'modify'
UserEdit ==
    /\ last.mode = "none"
    /\ content' \in Texts \cup PairTexts
    /\ last' = [last EXCEPT !.mode = "edit"]
    /\ UNCHANGED <<replacements, fm, plugin, ev, vault>>

\* the debounce timer of a 'modify' event fires, the event of the edit or
\* of the write of the pass before: handleFileModify calls
\* processFile(file, 'auto'), up to its await of vault.read
HandleModify ==
    /\ Len(content) <= LoopMaxLen
    /\ \/ last.mode = "edit"
       \/ /\ last.mode = "auto"
          /\ ~last.result.isNull /\ last.result.newContent # last.input
    /\ last' = [last EXCEPT !.mode = "reading"]
    /\ UNCHANGED <<content, replacements, fm, plugin, ev, vault>>

\* the read returns: the pass and its write
AutoUpdate ==
    /\ last.mode = "reading"
    /\ modify(content, "auto", replaceExpansions(content, "auto"))
    /\ UNCHANGED <<replacements, fm, plugin, ev, vault>>

NextLoop == UserEdit \/ HandleModify \/ AutoUpdate

\* the timer fires 500 ms after the event (weak fairness of HandleModify), and
\* a started processFile call runs to its end: weak fairness of AutoUpdate,
\* which is enabled exactly while last.mode = "reading" and always leaves
\* that state
SpecLoop ==
    /\ InitLoop /\ [][NextLoop]_vars
    /\ WF_vars(HandleModify)
    /\ []<>(last.mode # "reading")

(***************************************************************************)
(* updateFrontmatterProperty applied to a text of up to FmMaxLines lines   *)
(***************************************************************************)
FmMaxLines == 4

FmLineSet ==
    {Dashes, <<"-", "-", "-", "-">>, <<"n", ":", " ", "o">>,
     <<"n", " ", ":", " ", "o">>, <<"k", ":", " ", "w">>, <<"x">>, <<>>}

InitFrontmatter ==
    /\ content = <<>>
    /\ replacements = [k \in Keys |-> Disabled]
    /\ last = NoPass
    /\ fm \in {[NoUpdate EXCEPT !.input = join(ls, NL)] :
                ls \in UNION {[1..k -> FmLineSet] : k \in 1..FmMaxLines}}
    /\ plugin = NotLoaded
    /\ ev = NoEvaluation
    /\ vault = NoVault

UpdateProperty ==
    /\ ~fm.done
    /\ \E n \in {<<"n">>} : \E v \in {<<"v">>, <<>>} :
        fm' = [input |-> fm.input, propertyName |-> n, value |-> v,
               result |-> updateFrontmatterProperty(fm.input, n, v),
               done |-> TRUE]
    /\ UNCHANGED <<content, replacements, last, plugin, ev, vault>>

NextFrontmatter == UpdateProperty

SpecFrontmatter == InitFrontmatter /\ [][NextFrontmatter]_vars

(***************************************************************************)
(* ExpanderPlugin (plugin.ts): the vault's modify events, the debounced    *)
(* file handler (debounce) and the folder filter (shouldProcessFile).      *)
(* awaiting and passed are history: the files modified with automatic      *)
(* updates enabled that no auto-scope pass has run on since, and the files *)
(* a pass has run on.  timers counts the timers the runtime holds, and     *)
(* elapsed the milliseconds since the latest one was set, in steps of      *)
(* TickMs.  burst, ran and runs are history: the files the debounced       *)
(* function was called with since no timer was pending, the latest call of *)
(* the wrapped function, and its calls since the burst began.              *)
(***************************************************************************)
MaxEvents == 3

MINIMUM_MS_BETWEEN_EVENTS == 500

TickMs == 250

PluginFiles ==
    {[path |-> <<"n", "/", "a">>, extension |-> "md"],
     [path |-> <<"n", "/", "b">>, extension |-> "md"],
     [path |-> <<"i", "/", "c">>, extension |-> "md"],
     [path |-> <<"n", "2", "/", "d">>, extension |-> "md"],
     [path |-> <<"n", "/", "t">>, extension |-> "txt"]}

PluginSettings ==
    [disableAutomaticUpdates : BOOLEAN,
     ignoredFolders : {<<>>, << <<"i">> >>},
     foldersToScan : {<<>>, << <<"n">> >>}]

shouldProcessFile(file, s) ==
    IF \E n \in 1..Len(s.ignoredFolders) :
            Len(s.ignoredFolders[n]) > 0 /\ startsWith(file.path, s.ignoredFolders[n])
    THEN FALSE
    ELSE IF Len(s.foldersToScan) = 0 THEN TRUE
    ELSE \E n \in 1..Len(s.foldersToScan) :
            Len(s.foldersToScan[n]) > 0 /\ startsWith(file.path, s.foldersToScan[n])

\* a debounced function that keeps the arguments of the first call of a
\* burst
debouncedFnKeepsFirst(p, file) ==
    [p EXCEPT !.lastArgs = IF @ = <<>> THEN <<file>> ELSE @,
              !.timers = IF p.timeoutId # "null" THEN @ ELSE @ + 1,
              !.timeoutId = "armed", !.elapsed = 0,
              !.burst = IF p.timers = 0 THEN <<file>> ELSE Append(@, file),
              !.runs = IF p.timers = 0 THEN 0 ELSE @]

\* the debounced function called with file: lastArgs = args (the empty
\* sequence stands for null); clearTimeout;
\* timeoutId = setTimeout(...)
debouncedFn(p, file) ==
    [p EXCEPT !.lastArgs = <<file>>,
              !.timers = IF p.timeoutId # "null" THEN @ ELSE @ + 1,
              !.timeoutId = "armed", !.elapsed = 0,
              !.burst = IF p.timers = 0 THEN <<file>> ELSE Append(@, file),
              !.runs = IF p.timers = 0 THEN 0 ELSE @]

\* debouncedFn.cancel
cancel(p) ==
    [p EXCEPT !.timers = IF p.timeoutId # "null" THEN @ - 1 ELSE @,
              !.timeoutId = "null", !.lastArgs = <<>>]

InitPlugin ==
    /\ content = <<>>
    /\ replacements = [k \in Keys |-> Disabled]
    /\ last = NoPass
    /\ fm = NoUpdate
    /\ plugin \in {[NotLoaded EXCEPT !.settings = s] : s \in PluginSettings}
    /\ ev = NoEvaluation
    /\ vault = NoVault

\* the vault raises 'modify' for file: the handler registered by
\* registerEventHandlers
OnModify(file) ==
    /\ ~plugin.unloaded
    /\ plugin.events < MaxEvents
    /\ plugin' =
        LET p == [plugin EXCEPT !.events = @ + 1]
        IN IF p.settings.disableAutomaticUpdates THEN p
           ELSE IF file.extension = "md" /\ shouldProcessFile(file, p.settings)
           THEN [debouncedFn(p, file) EXCEPT !.awaiting = @ \cup {file}]
           ELSE p
    /\ UNCHANGED <<content, replacements, last, fm, ev, vault>>

\* the timer set by the debounced function fires: fn(...lastArgs), which is
\* handleFileModify(file), which runs processFile(file, 'auto')
TimerFires ==
    /\ plugin.timers > 0
    /\ plugin.elapsed >= MINIMUM_MS_BETWEEN_EVENTS
    /\ plugin' =
        LET ran == IF plugin.lastArgs # <<>> THEN {plugin.lastArgs[1]} ELSE {}
        IN [plugin EXCEPT !.timeoutId = "null", !.lastArgs = <<>>,
                          !.timers = @ - 1,
                          !.ran = IF ran = {} THEN @
                                  ELSE <<[file |-> plugin.lastArgs[1],
                                          after |-> plugin.elapsed,
                                          burst |-> plugin.burst,
                                          unloaded |-> plugin.unloaded]>>,
                          !.runs = IF ran = {} THEN @ ELSE @ + 1,
                          !.awaiting = @ \ ran, !.passed = @ \cup ran]
    /\ UNCHANGED <<content, replacements, last, fm, ev, vault>>

\* TickMs milliseconds pass while a timer is pending
Tick ==
    /\ plugin.timers > 0
    /\ plugin.elapsed < MINIMUM_MS_BETWEEN_EVENTS
    /\ plugin' = [plugin EXCEPT !.elapsed = @ + TickMs]
    /\ UNCHANGED <<content, replacements, last, fm, ev, vault>>

\* onunload: debouncedFileHandler.cancel(); the handlers registered with
\* registerEvent are detached with the plugin
Unload ==
    /\ ~plugin.unloaded
    /\ plugin' = [cancel(plugin) EXCEPT !.unloaded = TRUE]
    /\ UNCHANGED <<content, replacements, last, fm, ev, vault>>

NextPlugin ==
    (\E file \in PluginFiles : OnModify(file)) \/ TimerFires \/ Tick \/ Unload

SpecPlugin == InitPlugin /\ [][NextPlugin]_vars

(***************************************************************************)
(* processVault (file-processor.service.ts): processInBatches over the     *)
(* files of the vault with processFile(file, 'all') as the processor.      *)
(* Each processFile call is two steps, the completion of its vault.read    *)
(* and the completion of its vault.modify, each of which may fail.         *)
(* Meanwhile the user may edit the first file, and the modify handler may  *)
(* run processFile(file, 'auto') on it.                                    *)
(***************************************************************************)
VaultNotes ==
    {<<>>,
     <<Ch("x")>>,
     <<Open("auto", KeyA, "canon"), Close("canon")>>,
     <<Open("manual", KeyA, "canon"), Close("canon"),
       Open("auto", KeyB, "canon"), Close("canon")>>}

\* getFilesToProcess: the files of the vault, in the vault's order
getFilesToProcess == [n \in 1..VaultFiles |-> n]

InitVault ==
    /\ content = <<>>
    /\ replacements =
        [k \in Keys |-> IF k = KeyB THEN Enabled(<<Ch("y")>>) ELSE Enabled(<<Ch("x")>>)]
    /\ last = NoPass
    /\ fm = NoUpdate
    /\ plugin = NotLoaded
    /\ ev = NoEvaluation
    /\ vault \in {[NoVault EXCEPT !.disk = [f \in 1..VaultFiles |-> note]] :
                    note \in VaultNotes}

\* items.slice(i) in place of items.slice(i, i + batchSize)
batchToEnd(items, i, batchSize) == sliceFrom(items, i)

\* const batch = items.slice(i, i + batchSize)
batch(items, i, batchSize) == slice(items, i, i + batchSize)

\* batch.map(processor): processFile(file, 'all') is called for every file
\* of the batch, up to its "await this.app.vault.read(file)"
startBatch(v) ==
    LET b == batch(getFilesToProcess, v.i, BatchSize)
    IN [v EXCEPT !.calls =
            [c \in DOMAIN @ |->
                IF \E n \in 1..Len(b) : b[n] = c
                THEN [NoCall EXCEPT !.pc = "reading", !.file = c]
                ELSE @[c]]]

\* the ProcessingResult a call returns
ProcessingResult(call) ==
    [file |-> call.file, replacementsCount |-> call.replacementsCount,
     errors |-> call.errors]

\* processFile from the text read to its write condition: finalContent and
\* "hasChanges && finalContent !== content"
processed(text, r) ==
    LET finalContent == IF r.isNull THEN text ELSE r.newContent
        hasChanges == ~r.isNull \/ Len(r.propertyUpdates) > 0
    IN [writes |-> hasChanges /\ finalContent # text,
        finalContent |-> finalContent,
        replacementsCount |-> r.replacementsCount]

\* processFile after vault.read returned text: up to the await of
\* vault.modify, or to its return when there is nothing to write
afterRead(call, text, p) ==
    [call EXCEPT !.snapshot = text,
                 !.pc = IF p.writes THEN "writing" ELSE "done",
                 !.finalContent = p.finalContent,
                 !.count = p.replacementsCount]

\* a catch block that throws the error again
rethrowError(call, message) == [call EXCEPT !.pc = "rejected"]

\* processFile's catch block: result.errors.push(errorMessage), then
\* "return result"
recordError(call, message) ==
    [call EXCEPT !.pc = "done", !.errors = Append(@, message)]

\* processVault is called: processInBatches reaches the await of its first
\* batch
ProcessVault ==
    /\ ~vault.running /\ ~vault.returned /\ ~vault.rejected
    /\ vault' = startBatch([vault EXCEPT !.running = TRUE, !.i = 0])
    /\ UNCHANGED <<content, replacements, last, fm, plugin, ev>>

\* "await Promise.all(...)" resumes: it rejects as soon as a call of the
\* batch rejected, and otherwise gives the results in the order of the
\* batch once every call has returned; results.push(...batchResults),
\* i += batchSize, and the next batch starts or processInBatches returns
BatchSettles ==
    /\ vault.running
    /\ LET b == batch(getFilesToProcess, vault.i, BatchSize)
       IN IF \E n \in 1..Len(b) : vault.calls[b[n]].pc = "rejected"
          THEN vault' = [vault EXCEPT !.running = FALSE, !.rejected = TRUE]
          ELSE /\ \A n \in 1..Len(b) : vault.calls[b[n]].pc = "done"
               /\ vault' =
                    LET v == [vault EXCEPT
                                !.results = @ \o [n \in 1..Len(b) |->
                                    ProcessingResult(vault.calls[b[n]])],
                                !.i = @ + BatchSize]
                    IN IF v.i < Len(getFilesToProcess) THEN startBatch(v)
                       ELSE [v EXCEPT !.running = FALSE, !.returned = TRUE]
    /\ UNCHANGED <<content, replacements, last, fm, plugin, ev>>

\* the vault.read of call c completes, with the file's text or with an error
ReadDone(c) ==
    /\ vault.calls[c].pc = "reading"
    /\ \E ok \in BOOLEAN :
        vault' = [vault EXCEPT !.calls[c] =
            IF ok
            THEN afterRead(@, vault.disk[@.file],
                    processed(vault.disk[@.file],
                        replaceExpansions(vault.disk[@.file], @.mode)))
            ELSE [recordError(@, "read") EXCEPT !.failed = TRUE]]
    /\ UNCHANGED <<content, replacements, last, fm, plugin, ev>>

\* the vault.modify of call c completes: the file holds finalContent and
\* result.replacementsCount is set, or it failed
WriteDone(c) ==
    /\ vault.calls[c].pc = "writing"
    /\ \E ok \in BOOLEAN :
        vault' =
            IF ok
            THEN [vault EXCEPT
                    !.disk[vault.calls[c].file] = vault.calls[c].finalContent,
                    !.calls[c] = [@ EXCEPT !.pc = "done",
                                           !.replacementsCount = vault.calls[c].count,
                                           !.over = <<vault.disk[vault.calls[c].file]>>]]
            ELSE [vault EXCEPT !.calls[c] =
                    [recordError(@, "write") EXCEPT !.failed = TRUE]]
    /\ UNCHANGED <<content, replacements, last, fm, plugin, ev>>

\* handleFileModify(file) for the first file: processFile(file, 'auto') is
\* called, up to its vault.read
HandleFileModify ==
    /\ vault.calls[VaultFiles + 1].pc = "idle"
    /\ vault' = [vault EXCEPT !.calls[VaultFiles + 1] =
                    [NoCall EXCEPT !.pc = "reading", !.file = 1, !.mode = "auto"]]
    /\ UNCHANGED <<content, replacements, last, fm, plugin, ev>>

\* the user changes the first file in the editor
VaultEdit ==
    /\ ~vault.edited
    /\ \E note \in VaultNotes \ {vault.disk[1]} :
        vault' = [vault EXCEPT !.disk[1] = note, !.edited = TRUE]
    /\ UNCHANGED <<content, replacements, last, fm, plugin, ev>>

NextVault ==
    \/ ProcessVault \/ BatchSettles
    \/ \E c \in 1..(VaultFiles + 1) : ReadDone(c)
    \/ \E c \in 1..(VaultFiles + 1) : WriteDone(c)
    \/ HandleFileModify \/ VaultEdit

SpecVault == InitVault /\ [][NextVault]_vars

(***************************************************************************)
(* evaluateValue applied to an expression: up to EvMaxParts pieces put     *)
(* one after the other, or a conditional on a file test                    *)
(***************************************************************************)
EvMaxParts == 3

EvPieces ==
    {<<"u", "p", "p", "e", "r", "(", "'", "a", "d", "'", ")">>,
     <<".", "r", "e", "p", "l", "a", "c", "e", "(", "'", "(", "'", ",", "'", "x", "'", ")">>,
     <<".", "r", "e", "p", "l", "a", "c", "e", "(", "'", "a", "'", ",", "'", "x", "'", ")">>,
     <<"f", "i", "l", "e", ".", "n", "a", "m", "e">>,
     <<".", "c", "o", "n", "t", "a", "i", "n", "s", "(", "'", "d", "'", ")">>,
     <<"(", "c", ")">>,
     <<"x">>,
     <<" ">>,
     <<"u", "p", "p", "e", "r", "(">>,
     <<"'", "a">>}

RECURSIVE concat(_)
concat(parts) == IF Len(parts) = 0 THEN <<>> ELSE parts[1] \o concat(Tail(parts))

\* 'chars' as an expression writes it
quoted(chars) == <<"'">> \o chars \o <<"'">>

\* if(file.name.contains(q), a, b)
ifContains(q, a, b) ==
    <<"i", "f", "(", "f", "i", "l", "e", ".", "n", "a", "m", "e", ".", "c", "o", "n", "t", "a", "i", "n", "s", "(">> \o quoted(q)
    \o <<")", ",", " ">> \o quoted(a) \o <<",", " ">> \o quoted(b) \o <<")">>

EvConditionals ==
    {ifContains(q, a, b) : q \in {<<>>, <<"d">>, <<"z">>}, a \in {<<"A">>, <<>>},
                           b \in {<<"B">>, <<>>}}

\* a chain: a first element that gives a value of some variant, then up to
\* two methods
EvFirsts ==
    {<<"f", "i", "l", "e", ".", "c", "t", "i", "m", "e">>,
     <<"n", "u", "m", "b", "e", "r", "(", "'", "3", ".", "7", "'", ")">>,
     <<"f", "i", "l", "e", ".", "n", "a", "m", "e">>,
     <<"f", "i", "l", "e", ".", "n", "a", "m", "e", ".", "c", "o", "n", "t", "a", "i", "n", "s", "(", "'", "d", "'", ")">>,
     <<"f", "i", "l", "e", ".", "n", "a", "m", "e", ".", "s", "p", "l", "i", "t", "(", "'", "d", "'", ")">>}

\* foo is a name that no method table defines
EvMethods ==
    {<<>>,
     <<".", "f", "o", "o", "(", ")">>,
     <<".", "u", "p", "p", "e", "r", "(", ")">>,
     <<".", "r", "e", "v", "e", "r", "s", "e", "(", ")">>,
     <<".", "f", "o", "r", "m", "a", "t", "(", "'", "Y", "Y", "Y", "Y", "'", ")">>,
     <<".", "f", "l", "o", "o", "r", "(", ")">>}

EvCtime == <<"2", "0", "2", "4", "-", "0", "6", "-", "1", "5", "T", "1", "2", ":", "0", "0", ":", "0", "0", ".", "0", "0", "0", "Z">>

EvFiles ==
    {[basename |-> <<"a", "d">>, path |-> <<"n", "/", "a", "d", ".", "m", "d">>,
      extension |-> <<"m", "d">>, ctime |-> EvCtime],
     [basename |-> <<"x">>, path |-> <<"x", ".", "m", "d">>, extension |-> <<"m", "d">>,
      ctime |-> EvCtime]}

InitEval ==
    /\ content = <<>>
    /\ replacements = [k \in Keys |-> Disabled]
    /\ last = NoPass
    /\ fm = NoUpdate
    /\ plugin = NotLoaded
    /\ ev \in {[NoEvaluation EXCEPT !.value = v, !.context = c] :
                    v \in {concat(ps) : ps \in UNION {[1..n -> EvPieces] : n \in 0..EvMaxParts}}
                          \cup EvConditionals
                          \cup {first \o m1 \o m2 :
                                    first \in EvFirsts, m1 \in EvMethods, m2 \in EvMethods},
                    c \in {NoContext} \cup {[present |-> TRUE, file |-> f] : f \in EvFiles}}
    /\ vault = NoVault

\* getReplacementValue's "return evaluateValue(replacement.value, context)";
\* threw records whether the catch block ran
Evaluate ==
    /\ ~ev.done
    /\ ev' = [ev EXCEPT !.result = evaluateValue(ev.value, ev.context),
                        !.threw = isDynamicExpression(ev.value)
                                  /\ tryEvaluate(ev.value, ev.context).threw,
                        !.done = TRUE]
    /\ UNCHANGED <<content, replacements, last, fm, plugin, vault>>

NextEval == Evaluate

SpecEval == InitEval /\ [][NextEval]_vars

(***************************************************************************)
(* Claims                                                                  *)
(***************************************************************************)
PassRan == last.mode # "none"

\* C1: a pass over the output of a pass (same scope, same replacements)
\* changes nothing: newContent is null and replacementsCount is 0.
C1_Idempotent ==
    PassRan =>
        LET again == replaceExpansions(content, last.mode)
        IN again.isNull /\ again.replacementsCount = 0


Steps == last.result.steps
Resolves(key) == getReplacementValue(key).found
InScope(occ, mode) == mode = "all" \/ occ.updateMode = "auto"

\* the n-th element of a scan result, for all n
Found(list) == {list[n] : n \in 1..Len(list)}

\* text holds part at offset d
OccursAt(text, part, d) ==
    d + Len(part) <= Len(text) /\ substring(text, d, d + Len(part)) = part
Occurs(text, part) == \E d \in 0..Len(text) : OccursAt(text, part, d)

\* the recorded edits lead from the pass's input to its output
StepsChain ==
    /\ Len(Steps) = 0 => content = last.input
    /\ Len(Steps) > 0 =>
        /\ Steps[1].before = last.input
        /\ Steps[Len(Steps)].after = content
        /\ \A n \in 1..(Len(Steps) - 1) : Steps[n].after = Steps[n + 1].before

\* the recorded span of the step's occurrence holds that occurrence in the
\* working text: its opening marker first and, for a pair, its closing
\* marker last
SpanIsOccurrence(st) ==
    LET b == st.before
    IN /\ st.startOffset < st.endOffset /\ st.endOffset <= Len(b)
       /\ OPENING_MARKER_REGEX(b[st.startOffset + 1])
       /\ b[st.startOffset + 1].key = st.key
       /\ b[st.startOffset + 1].mode = st.updateMode
       /\ st.phase = "incomplete" => st.endOffset = st.startOffset + 1
       /\ st.phase = "complete" =>
            /\ ClosingMarker(b[st.endOffset])
            /\ \A i \in (st.startOffset + 2)..(st.endOffset - 1) : ~ClosingMarker(b[i])

\* before and after agree on their first p and on their last q tokens
Splice(before, after, p, q) ==
    /\ p + q <= Len(before) /\ p + q <= Len(after)
    /\ SubSeq(before, 1, p) = SubSeq(after, 1, p)
    /\ SubSeq(before, Len(before) - q + 1, Len(before))
        = SubSeq(after, Len(after) - q + 1, Len(after))

\* every token of the working text outside the span is kept, in place
\* before the span and in order after it
KeepsOutside(st) ==
    /\ substring(st.after, 0, st.startOffset) = substring(st.before, 0, st.startOffset)
    /\ \E p \in 0..Len(st.before) : \E q \in 0..Len(st.before) :
        /\ Splice(st.before, st.after, p, q)
        /\ \A i \in 0..(Len(st.before) - 1) :
            (i < st.startOffset \/ i >= st.endOffset)
                => (i < p \/ i >= Len(st.before) - q)

\* C2: a pass changes no character outside the spans of the occurrences it
\* rewrites or completes: its output comes from its input by edits, each of
\* which keeps every token of the text outside the span of the occurrence
\* it is made for.
C2_UnrelatedContentPreserved ==
    PassRan =>
        /\ StepsChain
        /\ \A n \in 1..Len(Steps) : SpanIsOccurrence(Steps[n]) /\ KeepsOutside(Steps[n])

\* a pair with text before and after it was rewritten
C2_Witness ==
    /\ PassRan
    /\ \E n \in 1..Len(Steps) :
        /\ Steps[n].phase = "complete"
        /\ Steps[n].startOffset > 0
        /\ Steps[n].endOffset < Len(Steps[n].before)
        /\ Steps[n].after # Steps[n].before

\* C3: a pass in auto scope changes no manual, once or once-and-eject
\* occurrence: every such pair of the input stands in the output with the
\* same markers and the same inner text, and every such opening marker
\* of the input is still in the output.
C3_AutoScopeLeavesOtherModes ==
    (PassRan /\ last.mode = "auto") =>
        /\ \A m \in Found(findExpansions(last.input)) :
            m.updateMode # "auto" => Occurs(content, m.fullMatch)
        /\ \A inc \in Found(findIncompleteExpansions(last.input)) :
            inc.updateMode # "auto" => Occurs(content, <<inc.openMarker>>)

\* C4: a once-mode pair whose inner text holds a non-whitespace character is
\* frozen: every pass, in either scope, leaves the pair and its inner text
\* as they are.
C4_OnceFrozen ==
    PassRan =>
        \A m \in Found(findExpansions(last.input)) :
            (m.updateMode = "once" /\ ~trimIsEmpty(m.currentValue))
                => Occurs(content, m.fullMatch)

\* C5: after a pass in all scope no once-and-eject marker is left whose key
\* resolves and whose inner text is empty or whitespace (or missing): the
\* pass has put the bare value in its place.
C5_EjectRemovesMarkers ==
    (PassRan /\ last.mode = "all") =>
        /\ \A m \in Found(findExpansions(content)) :
            (m.updateMode = "once-and-eject" /\ Resolves(m.key))
                => ~trimIsEmpty(m.currentValue)
        /\ \A inc \in Found(findIncompleteExpansions(content)) :
            inc.updateMode = "once-and-eject" => ~Resolves(inc.key)

\* C6: after any pass every complete auto-mode pair of the output whose
\* key is no property key and resolves holds the resolved value as its inner
\* text.
C6_AutoPairsUpToDate ==
    PassRan =>
        \A m \in Found(findExpansions(content)) :
            (m.updateMode = "auto" /\ ~isPropertyKey(m.key) /\ Resolves(m.key))
                => m.currentValue = getReplacementValue(m.key).value

\* the pass rewrote an auto-mode pair that held another text
C6_Witness ==
    /\ PassRan
    /\ \E n \in 1..Len(Steps) :
        /\ Steps[n].phase = "complete" /\ Steps[n].updateMode = "auto"
        /\ Steps[n].after # Steps[n].before
    /\ \E m \in Found(findExpansions(content)) :
        m.updateMode = "auto" /\ Resolves(m.key) /\ Len(m.currentValue) > 0


\* every in-scope incomplete opening of the input has its recorded edit
EveryIncompleteHandled ==
    \A inc \in Found(findIncompleteExpansions(last.input)) :
        InScope(inc, last.mode) =>
            \E n \in 1..Len(Steps) :
                /\ Steps[n].phase = "incomplete"
                /\ Steps[n].startOffset = inc.startOffset
                /\ Steps[n].key = inc.key

\* the step completes an opening (not once-and-eject) whose key resolves
CompletesWithValue(st) ==
    /\ st.phase = "incomplete"
    /\ st.updateMode # "once-and-eject"
    /\ ~isPropertyKey(st.key)
    /\ st.value.found

\* the text right after the opening marker, when the pass comes to it
TextAfterMarker(st) == substringFrom(st.before, st.endOffset)

\* text begins with v
BeginsWith(text, v) ==
    Len(v) <= Len(text) /\ \A i \in 1..Len(v) : text[i] = v[i]

\* C7: the pass completes every in-scope incomplete opening (not
\* once-and-eject, no property key) whose key resolves to v without
\* duplication: the opening marker and the text before it stay, v and the
\* closing marker directly follow the opening marker, and what follows the
\* closing marker is the text that followed the opening marker, less the v
\* it began with if it began with v.
C7_CompletionWithoutDuplication ==
    PassRan =>
        /\ EveryIncompleteHandled
        /\ \A n \in 1..Len(Steps) :
            CompletesWithValue(Steps[n]) =>
                LET st == Steps[n]
                    v == st.value.value
                    e == st.endOffset
                IN /\ SpanIsOccurrence(st)
                   /\ substring(st.after, 0, e) = substring(st.before, 0, e)
                   /\ OccursAt(st.after, v \o <<Close("canon")>>, e)
                   /\ substringFrom(st.after, e + Len(v) + 1)
                        = IF BeginsWith(TextAfterMarker(st), v)
                          THEN substringFrom(TextAfterMarker(st), Len(v))
                          ELSE TextAfterMarker(st)

\* an opening was completed whose value was already typed after it, with
\* more text behind the value
C7_Witness ==
    /\ PassRan
    /\ \E n \in 1..Len(Steps) :
        /\ CompletesWithValue(Steps[n])
        /\ Len(Steps[n].value.value) > 0
        /\ BeginsWith(TextAfterMarker(Steps[n]), Steps[n].value.value)
        /\ Len(TextAfterMarker(Steps[n])) > Len(Steps[n].value.value)

\* C8: after a pass in all scope no incomplete opening with a key that is
\* no property key is left: every such opening of the input is part of a
\* pair (or, once-and-eject, gone).
C8_NoIncompleteLeft ==
    (PassRan /\ last.mode = "all") =>
        \A inc \in Found(findIncompleteExpansions(content)) : isPropertyKey(inc.key)

\* C9: for every in-scope incomplete opening whose key is no property key and
\* does not resolve, the pass puts exactly the closing marker directly after
\* the opening marker, changes nothing else, and reports the key in
\* unknownKeys.
C9_UnresolvedIncomplete ==
    PassRan =>
        /\ EveryIncompleteHandled
        /\ \A n \in 1..Len(Steps) :
            (Steps[n].phase = "incomplete" /\ ~Steps[n].value.found) =>
                LET st == Steps[n]
                    e == st.endOffset
                IN /\ SpanIsOccurrence(st)
                   /\ ~isPropertyKey(st.key)
                   /\ st.after = substring(st.before, 0, e) \o <<Close("canon")>>
                                 \o substringFrom(st.before, e)
                   /\ \E k \in 1..Len(last.result.unknownKeys) :
                        last.result.unknownKeys[k] = st.key

\* an opening with an unknown key and text behind it was closed
C9_Witness ==
    /\ PassRan
    /\ \E n \in 1..Len(Steps) :
        /\ Steps[n].phase = "incomplete" /\ ~Steps[n].value.found
        /\ Len(TextAfterMarker(Steps[n])) > 0
        /\ Steps[n].startOffset > 0

\* C10: every marker with one of the four mode prefixes whose key is
\* kebab-case, or "prop." followed by a non-empty remainder, is reported by
\* the scan, as a pair or as an incomplete opening.
C10_ScannerRecognisesBothKeyForms ==
    \A i \in 1..Len(content) :
        (/\ content[i].t = "open"
         /\ content[i].mode \in UpdateMode
         /\ \/ KEY_PATTERN(content[i].key)
            \/ isPropertyKey(content[i].key) /\ Len(getPropertyName(content[i].key)) > 0)
        => \/ \E m \in Found(findExpansions(content)) : m.startOffset = i - 1
           \/ \E inc \in Found(findIncompleteExpansions(content)) : inc.startOffset = i - 1

\* the opening markers of text that carry a property key
PropertyMarkers(text) ==
    {i \in 1..Len(text) : text[i].t = "open" /\ isPropertyKey(text[i].key)}

\* C11: a pass leaves every marker with a property key as it is: the marker
\* still stands in the output, and the pass has put no closing marker
\* behind it (one follows it only where one followed it in the input).
C11_PropertyMarkersUntouched ==
    PassRan =>
        \A i \in PropertyMarkers(last.input) :
            \E j \in 1..Len(content) :
                /\ content[j] = last.input[i]
                /\ (j < Len(content) /\ ClosingMarker(content[j + 1]))
                    => (i < Len(last.input) /\ ClosingMarker(last.input[i + 1]))

\* C12: for every in-scope marker with property key "prop.N" of the input
\* whose key resolves to v, the result's propertyUpdates holds
\* [propertyName |-> N, value |-> v].
C12_PropertyUpdatesRecorded ==
    PassRan =>
        \A i \in PropertyMarkers(last.input) :
            LET tok == last.input[i]
            IN (InScope([updateMode |-> tok.mode], last.mode) /\ Resolves(tok.key))
                => \E n \in 1..Len(last.result.propertyUpdates) :
                    last.result.propertyUpdates[n]
                        = [propertyName |-> getPropertyName(tok.key),
                           value |-> getReplacementValue(tok.key).value]

\* the lines of the text the property was written to, and of the result
FmIn == split(fm.input, NL)
FmOut == split(fm.result, NL)

\* the line number of the delimiter that closes the header of a text whose
\* first line is the delimiter; 0 if the text has no header or an unclosed one
HeaderClose(lines) ==
    LET cs == {c \in 2..Len(lines) : lines[c] = Dashes}
    IN IF lines[1] # Dashes \/ cs = {} THEN 0
       ELSE CHOOSE c \in cs : \A d \in cs : c <= d

\* the line sets key n: "n", blanks around it allowed, then a colon
SetsKey(line, n) ==
    LET c == indexOf(line, <<":">>, 0)
    IN c # -1 /\ trim(slice(line, 0, c)) = n

\* "n: v", the value written as YAML writes it
WrittenLine == fm.propertyName \o <<":", " ">> \o formatYamlValue(fm.value)

\* C13: writing property n with value v to a text without a (closed) header
\* prepends a header of the one line "n: v" and keeps the whole text behind
\* it; with a header that sets n, the lines that set n become "n: v" and every
\* other line of the text stays; with a header that does not set n, "n: v"
\* is put in as the last header line and every line of the text stays.
C13_FrontmatterWrite ==
    fm.done =>
        LET c == HeaderClose(FmIn)
            keyLines == {i \in 2..(c - 1) : SetsKey(FmIn[i], fm.propertyName)}
        IN IF c = 0
           THEN fm.result = Dashes \o <<NL>> \o WrittenLine \o <<NL>> \o Dashes
                            \o <<NL>> \o fm.input
           ELSE IF keyLines # {}
           THEN /\ Len(FmOut) = Len(FmIn)
                /\ \A i \in 1..Len(FmIn) :
                    FmOut[i] = IF i \in keyLines THEN WrittenLine ELSE FmIn[i]
           ELSE FmOut = SubSeq(FmIn, 1, c - 1) \o <<WrittenLine>>
                        \o SubSeq(FmIn, c, Len(FmIn))

\* the text the pass worked on once the incomplete openings were completed
AfterCompletion ==
    LET ks == {n \in 1..Len(Steps) : Steps[n].phase = "incomplete"}
    IN IF ks = {} THEN last.input
       ELSE Steps[CHOOSE n \in ks : \A k \in ks : k <= n].after

\* a once or once-and-eject pair that holds text is never looked up
Frozen(m) ==
    m.updateMode \in {"once", "once-and-eject"} /\ ~trimIsEmpty(m.currentValue)

\* the keys the pass looked up
LookedUp ==
    {inc.key : inc \in {i \in Found(findIncompleteExpansions(last.input)) :
                            InScope(i, last.mode)}}
    \cup {m.key : m \in {x \in Found(findExpansions(AfterCompletion)) :
                            InScope(x, last.mode) /\ ~Frozen(x)}}

\* C14: the keys of unknownKeys are, each once, the keys the pass looked up
\* that do not resolve; and whatever keys are unknown, every in-scope
\* incomplete opening has been handled and every in-scope pair of the output
\* whose key resolves (and that is not frozen) holds its value.
C14_UnknownKeysAreData ==
    PassRan =>
        LET uk == last.result.unknownKeys
        IN /\ \A i \in 1..Len(uk) : \A j \in 1..Len(uk) : uk[i] = uk[j] => i = j
           /\ {uk[i] : i \in 1..Len(uk)} = {k \in LookedUp : ~Resolves(k)}
           /\ EveryIncompleteHandled
           /\ \A m \in Found(findExpansions(content)) :
                (/\ InScope(m, last.mode) /\ Resolves(m.key)
                 /\ ~isPropertyKey(m.key) /\ ~Frozen(m))
                    => m.currentValue = getReplacementValue(m.key).value

\* a pass met an unknown key twice and rewrote an occurrence of a known key
C14_Witness ==
    /\ PassRan
    /\ Len(last.result.unknownKeys) = 1
    /\ \E n \in 1..Len(Steps) : \E k \in 1..Len(Steps) :
        /\ n # k
        /\ ~Steps[n].value.found /\ ~Steps[k].value.found
        /\ Steps[n].key = Steps[k].key
    /\ \E n \in 1..Len(Steps) :
        Steps[n].value.found /\ Steps[n].after # Steps[n].before

\* the recorded span of the step's occurrence holds that occurrence in text:
\* its opening marker first and, for a pair, its closing marker last
SpanIn(st, text) ==
    /\ st.startOffset < st.endOffset /\ st.endOffset <= Len(text)
    /\ OPENING_MARKER_REGEX(text[st.startOffset + 1])
    /\ text[st.startOffset + 1].key = st.key
    /\ text[st.startOffset + 1].mode = st.updateMode
    /\ st.phase = "incomplete" => st.endOffset = st.startOffset + 1
    /\ st.phase = "complete" =>
        /\ ClosingMarker(text[st.endOffset])
        /\ \A i \in (st.startOffset + 2)..(st.endOffset - 1) : ~ClosingMarker(text[i])

\* C15: in each of the two loops of a pass the occurrences are rewritten in
\* strictly descending order of start offset, and at every edit the recorded
\* offsets of the occurrence being rewritten and of every occurrence the
\* loop has still to rewrite delimit that occurrence in the working text,
\* before and after the edit.
C15_OffsetsStayValid ==
    PassRan =>
        \A n \in 1..Len(Steps) :
            /\ SpanIn(Steps[n], Steps[n].before)
            /\ \A k \in (n + 1)..Len(Steps) :
                Steps[k].phase = Steps[n].phase =>
                    /\ Steps[k].startOffset < Steps[n].startOffset
                    /\ Steps[k].endOffset <= Steps[n].startOffset
                    /\ SpanIn(Steps[k], Steps[n].before)
                    /\ SpanIn(Steps[k], Steps[n].after)

\* the second loop rewrote two pairs, and its first edit changed the
\* length of the text
C15_Witness ==
    /\ PassRan
    /\ \E n \in 1..Len(Steps) : \E k \in (n + 1)..Len(Steps) :
        /\ Steps[k].phase = "complete" /\ Steps[n].phase = "complete"
        /\ Len(Steps[n].after) # Len(Steps[n].before)

\* the text the edits of the pass led to
Produced == IF Len(Steps) = 0 THEN last.input ELSE Steps[Len(Steps)].after

C17_EveryModifiedFileIsPassed ==
    plugin.timeoutId = "null" => plugin.awaiting = {}


\* C18: evaluateValue never raises: it returns a string for every expression
\* and context, and when tokenizing, parsing or interpreting failed (the catch
\* block ran) the string it returns is the original expression text.
C18_EvaluationNeverRaises ==
    ev.done =>
        /\ DOMAIN ev.result = 1..Len(ev.result)
        /\ ev.threw => ev.result = ev.value

\* an expression whose interpretation failed has been evaluated, and the
\* expression is not the empty text
C18_Witness ==
    /\ ev.done
    /\ ev.threw
    /\ ev.value # <<>>
    /\ ev.result = ev.value

\* static text: parseExpression finds in it no function call and no file field
isStaticText(value) ==
    \A n \in 1..Len(parseExpression(tokenize(value), NoContext)) :
        parseExpression(tokenize(value), NoContext)[n].type = "property"

\* C19: a replacement value that is static text rather than a function
\* expression passes through: evaluateValue returns it unchanged, character
\* for character.
C19_StaticValuesPassThrough ==
    ev.done /\ isStaticText(ev.value) => ev.result = ev.value

\* C20: with a file context, if(file.name.contains(q), a, b) evaluates to a
\* when the file name contains q and to b otherwise.
C20_ConditionalOnFileTest ==
    \A q \in {<<>>, <<"d">>, <<"z">>}, a \in {<<"A">>, <<>>}, b \in {<<"B">>, <<>>} :
        ev.done /\ ev.context.present /\ ev.value = ifContains(q, a, b)
        => ev.result = IF includes(ev.context.file.basename, q) THEN a ELSE b


\* C21: an unknown method is a no-op: a chain with a method that no method
\* table defines (foo) evaluates to the same result as the chain with that
\* element removed, whatever variant the value before it has.
C21_UnknownMethodsAreNoOps ==
    \A first \in EvFirsts, m2 \in EvMethods :
        ev.done /\ ev.value = first \o <<".", "f", "o", "o", "(", ")">> \o m2
        => ev.result = evaluateValue(first \o m2, ev.context)

\* the value a first element gives, and the name of a method written as ".m()"
firstValue(first, context) == tryEvaluate(first, context).val
methodName(m) == parseExpression(tokenize(m), NoContext)[1].name

\* C22: string fallback: for a value of variant Date, Number, Boolean or
\* StringList and a String method that the variant does not define (upper,
\* reverse), applying the method gives what the method gives on the String
\* value built from the value's display string.
C22_StringFallback ==
    \A first \in EvFirsts, m \in {<<".", "u", "p", "p", "e", "r", "(", ")">>, <<".", "r", "e", "v", "e", "r", "s", "e", "(", ")">>} :
        /\ ev.done
        /\ ev.value = first \o m
        /\ firstValue(first, ev.context).kind \in {"DateValue", "NumberValue", "boolean", "array"}
        => ev.result =
              resultToString(
                  applyStringMethod(
                      createString(resultToString(firstValue(first, ev.context))),
                      methodName(m), <<>>).val)


\* a file lies inside a folder: at or below it
liesInside(file, folder) == startsWith(file.path, folder \o <<"/">>)

\* C23: folder filtering: a file is selected for processing if and only if it
\* lies inside no ignored folder and either foldersToScan is empty or it lies
\* inside one of the folders to scan; an ignored folder wins over a folder to
\* scan.
C23_FolderFiltering ==
    \A file \in PluginFiles :
        LET s == plugin.settings
        IN shouldProcessFile(file, s)
           <=> /\ \A n \in 1..Len(s.ignoredFolders) : ~liesInside(file, s.ignoredFolders[n])
               /\ \/ Len(s.foldersToScan) = 0
                  \/ \E n \in 1..Len(s.foldersToScan) : liesInside(file, s.foldersToScan[n])


FinalContent == IF last.result.isNull THEN last.input ELSE last.result.newContent

\* C27: write only on change: processFile calls vault.modify at most once, and
\* exactly when the final content differs from the content it read, with the
\* final content; when it does not write, the reported replacementsCount is 0.
C27_WriteOnlyOnChange ==
    last.mode \in {"auto", "all"} =>
        /\ Len(last.writes) <= 1
        /\ Len(last.writes) = 1 <=> FinalContent # last.input
        /\ Len(last.writes) = 1 => last.writes[1] = FinalContent /\ content = FinalContent
        /\ Len(last.writes) = 0 => last.replacementsCount = 0 /\ content = last.input

\* a pass has written and reports its replacements, and a further pass over
\* what it wrote would have nothing to write
C27_Witness ==
    /\ last.mode \in {"auto", "all"}
    /\ Len(last.writes) = 1
    /\ last.replacementsCount > 0
    /\ replaceExpansions(content, last.mode).isNull


\* the pair whose refresh button was clicked
Refreshed == findExpansions(last.input)[last.pair]

\* C26: the refresh button respects the once gate and its pair: refreshing a
\* once or once-and-eject pair whose inner text is not empty leaves the note
\* as it is, and a refresh rewrites at most the pair it was requested for.
C26_RefreshRespectsOnceGate ==
    last.mode = "refresh" =>
        /\ Frozen(Refreshed) => content = last.input
        /\ \/ content = last.input
           \/ content = replaceMatch(last.input, Refreshed,
                                     getReplacementValue(Refreshed.key).value)

\* C29: the debounced function runs the wrapped function only when
\* MINIMUM_MS_BETWEEN_EVENTS milliseconds have passed since its latest call,
\* at most once for a burst of calls and with the arguments of the burst's
\* last call; once cancel() was called (onunload) no timer is pending any
\* more and the wrapped function has not run since.
C29_Debounce ==
    /\ plugin.runs <= 1
    /\ \A n \in 1..Len(plugin.ran) :
        /\ plugin.ran[n].after >= MINIMUM_MS_BETWEEN_EVENTS
        /\ plugin.ran[n].file = plugin.ran[n].burst[Len(plugin.ran[n].burst)]
        /\ ~plugin.ran[n].unloaded
    /\ plugin.unloaded => plugin.timers = 0 /\ plugin.lastArgs = <<>>

\* the wrapped function ran for a burst of two calls with different files,
\* and later cancel() dropped the pending call of a further burst
C29_Witness ==
    /\ plugin.unloaded
    /\ Len(plugin.burst) > 0
    /\ plugin.runs = 0
    /\ \E n \in 1..Len(plugin.ran) :
        /\ Len(plugin.ran[n].burst) >= 2
        /\ plugin.ran[n].burst[1] # plugin.ran[n].file

\* the calls of the batches that have started and not returned or rejected
InFlight == {c \in 1..VaultFiles : vault.calls[c].pc \in {"reading", "writing"}}

\* C25: no lost update: whenever a processFile call has written a file, the
\* text its vault.modify replaced is the text its vault.read had returned, so
\* that no change made to the file in between is overwritten unseen.
C25_NoLostUpdate ==
    \A c \in 1..(VaultFiles + 1) :
        \A n \in 1..Len(vault.calls[c].over) :
            vault.calls[c].over[n] = vault.calls[c].snapshot

\* C28: a failing file does not abort the batch: processVault never rejects,
\* and when it has returned there is exactly one result per file, in the
\* order of the file list, every call has run to its end, and a result holds
\* an error exactly if a vault operation of that file's call failed.
C28_FailingFileDoesNotAbort ==
    /\ ~vault.rejected
    /\ vault.returned =>
        /\ Len(vault.results) = Len(getFilesToProcess)
        /\ \A n \in 1..Len(vault.results) :
            /\ vault.results[n].file = getFilesToProcess[n]
            /\ vault.calls[n].pc = "done"
            /\ (Len(vault.results[n].errors) > 0) = vault.calls[n].failed

\* processVault returned although the first file's call failed, and the
\* call of the last file wrote its file
C28_Witness ==
    /\ vault.returned
    /\ vault.calls[1].failed
    /\ ~vault.calls[VaultFiles].failed
    /\ Len(vault.calls[VaultFiles].over) > 0

\* C30: bounded concurrency: at most BatchSize calls of processInBatches are
\* in flight, and a call of a later batch has started only if every call of
\* the batches before it has finished.
C30_BoundedConcurrency ==
    /\ Cardinality(InFlight) <= BatchSize
    /\ \A c \in 1..VaultFiles : \A d \in 1..VaultFiles :
        (c - 1) \div BatchSize < (d - 1) \div BatchSize /\ vault.calls[d].pc # "idle"
            => vault.calls[c].pc \in {"done", "rejected"}

\* BatchSize calls of a later batch are in flight after the results of the
\* first batch were pushed
C30_Witness ==
    /\ vault.i > 0
    /\ Len(vault.results) >= BatchSize
    /\ Cardinality(InFlight) = BatchSize

====
